---- MODULE Spec2Model ----
(***************************************************************************)
(* Snippet generation of native/search/src/snippet.rs: a SnippetGenerator  *)
(* (weight table, bound), the scan of search_fragments token by token,     *)
(* select_best_fragment_combination, and the two renderers of Snippet.     *)
(*                                                                         *)
(* A string is a sequence of one-character strings; every character of the *)
(* alphabet is one byte, so byte offsets and character offsets coincide.   *)
(* A Score is an integer multiple of 1/ScoreScale (f32 rounding is not     *)
(* modelled).                                                              *)
(***************************************************************************)
EXTENDS Integers, Sequences, FiniteSets, TLC

VARIABLES
    terms_text,     \* SnippetGenerator.terms_text: lowercased term -> Score
    max_num_chars,  \* SnippetGenerator.max_num_chars
    pc,             \* "idle" | "scan" | "select" | "done": position in snippet()
    text,           \* the argument of the running snippet() call
    token_stream,   \* the tokens search_fragments has not read yet
    fragment,       \* search_fragments: the current FragmentCandidate
    fragments,      \* search_fragments: the candidates pushed so far
    best,           \* select_best_fragment_combination: best_fragment_opt
    snippet,        \* the Snippet snippet() returns
    html,           \* <<>> or <<s>>: the result of snippet.to_html()
    mark,           \* <<>> or <<s>>: the result of snippet.to_mark()
    fed,            \* history: the tokens fed to `fragment` since it was opened
    terms0,         \* history: terms_text as create() built it
    set_n           \* history: the last argument of set_max_num_chars

vars == <<terms_text, max_num_chars, pc, text, token_stream, fragment,
          fragments, best, snippet, html, mark, fed, terms0, set_n>>

----------------------------------------------------------------------------
(* Bounds of the model *)

MaxLen == 4
MaxDocFreq == 2
MaxWeight == 2
MaxReps == 12
MaxCands == 3
MaxScore == 2

DEFAULT_MAX_NUM_CHARS == 150

Alphabet == {"a", "B", "<"}

RECURSIVE SeqsUpTo(_, _)
SeqsUpTo(S, n) ==
    IF n = 0 THEN {<<>>}
    ELSE LET shorter == SeqsUpTo(S, n - 1)
         IN  shorter \cup {Append(s, c) : s \in shorter, c \in S}

RECURSIVE RepeatedText(_)
RepeatedText(k) ==
    IF k = 1 THEN <<"a">> ELSE RepeatedText(k - 1) \o <<" ", "a">>

\* "a aB" and "<a> & \"aB'"
ExampleTexts ==
    {<<"a", " ", "a", "B">>,
     <<"<", "a", ">", " ", "&", " ", "\"", "a", "B", "'">>}

\* The texts snippet() is called with: every short text over the alphabet,
\* k words "a" separated by single spaces, and the examples.
Texts ==
    SeqsUpTo(Alphabet, MaxLen) \cup {RepeatedText(k) : k \in 1..MaxReps}
        \cup ExampleTexts

\* The arguments set_max_num_chars is called with.
MaxNumCharsArgs == 0..MaxLen

\* The terms of the query in the generator's field.
QueryTerms == {<<"a">>, <<"a", "b">>}

RECURSIVE Factorial(_)
Factorial(n) == IF n = 0 THEN 1 ELSE n * Factorial(n - 1)

\* A Score of 1.0.
ScoreScale == Factorial(MaxDocFreq + 1)

----------------------------------------------------------------------------
(* Strings and tokens *)

ToLowerChar(c) == IF c = "B" THEN "b" ELSE c

to_lowercase(s) == [i \in 1..Len(s) |-> ToLowerChar(s[i])]

IsAlphanumeric(c) == c \in {"a", "b", "B"}

\* text[from..to]
Slice(s, from, to) == SubSeq(s, from + 1, to)

\* The end of the run of alphanumeric characters that starts at offset pos.
RunEnd(s, pos) ==
    CHOOSE e \in (pos + 1)..Len(s) :
        /\ \A j \in (pos + 1)..e : IsAlphanumeric(s[j])
        /\ e = Len(s) \/ ~IsAlphanumeric(s[e + 1])

RECURSIVE TokensFrom(_, _)
TokensFrom(s, pos) ==
    IF pos >= Len(s) THEN <<>>
    ELSE IF ~IsAlphanumeric(s[pos + 1]) THEN TokensFrom(s, pos + 1)
    ELSE LET e == RunEnd(s, pos)
         IN  <<[text |-> Slice(s, pos, e), offset_from |-> pos, offset_to |-> e]>>
                 \o TokensFrom(s, e)

\* tokenizer.token_stream(text): the maximal alphanumeric runs, in source
\* order, each with its text as written and its offsets.
TokenStream(s) == TokensFrom(s, 0)

----------------------------------------------------------------------------
(* HighlightSection, FragmentCandidate *)

HighlightSection_new(start, stop) == [start |-> start, stop |-> stop]

FragmentCandidate_new(start_offset) ==
    [score |-> 0, start_offset |-> start_offset, stop_offset |-> start_offset,
     num_chars |-> 0, highlighted |-> <<>>]

\* try_add_token looking the token's text up as written.
try_add_token_as_written(f, token, terms) ==
    IF token.text \in DOMAIN terms
    THEN [f EXCEPT !.stop_offset = token.offset_to,
                   !.score = @ + terms[token.text],
                   !.highlighted = Append(@,
                       HighlightSection_new(token.offset_from, token.offset_to))]
    ELSE [f EXCEPT !.stop_offset = token.offset_to]

try_add_token(f, token, terms) ==
    LET key == to_lowercase(token.text)
    IN  IF key \in DOMAIN terms
        THEN [f EXCEPT !.stop_offset = token.offset_to,
                       !.score = @ + terms[key],
                       !.highlighted = Append(@,
                           HighlightSection_new(token.offset_from, token.offset_to))]
        ELSE [f EXCEPT !.stop_offset = token.offset_to]

----------------------------------------------------------------------------
(* search_fragments *)

\* Does the loop body close the current fragment before it adds `next`?
Exceeds(f, next, n) == (next.offset_to - f.start_offset) > n

\* The push without the test of the score.
PushAlways(fs, f) == Append(fs, f)

PushIfScored(fs, f) == IF f.score > 0 THEN Append(fs, f) ELSE fs

\* The loop body opening the new fragment where the closed one stopped.
LoopBody_from_stop(f, fs, next, terms, n) ==
    IF Exceeds(f, next, n)
    THEN <<try_add_token(FragmentCandidate_new(f.stop_offset), next, terms),
           PushIfScored(fs, f)>>
    ELSE <<try_add_token(f, next, terms), fs>>

\* One iteration of the while loop, on the pair <<fragment, fragments>>.
LoopBody(f, fs, next, terms, n) ==
    IF Exceeds(f, next, n)
    THEN <<try_add_token(FragmentCandidate_new(next.offset_from), next, terms),
           PushIfScored(fs, f)>>
    ELSE <<try_add_token(f, next, terms), fs>>

RECURSIVE ScanFrom(_, _, _, _, _)
ScanFrom(f, fs, tokens, terms, n) ==
    IF tokens = <<>> THEN PushIfScored(fs, f)
    ELSE LET st == LoopBody(f, fs, Head(tokens), terms, n)
         IN  ScanFrom(st[1], st[2], Tail(tokens), terms, n)

search_fragments(s, terms, n) ==
    ScanFrom(FragmentCandidate_new(0), <<>>, TokenStream(s), terms, n)

----------------------------------------------------------------------------
(* select_best_fragment_combination *)

NumCmp(a, b) == IF a < b THEN "Less" ELSE IF a > b THEN "Greater" ELSE "Equal"

\* (a1, a2).cmp(&(b1, b2)) on tuples of usize
PairCmp(a1, a2, b1, b2) == IF a1 # b1 THEN NumCmp(a1, b1) ELSE NumCmp(a2, b2)

\* The closure with the offsets compared left to right.
CompareFragments_left_right(left, right) ==
    LET cmp_score == NumCmp(left.score, right.score)
    IN  IF cmp_score = "Equal"
        THEN PairCmp(left.start_offset, left.stop_offset,
                     right.start_offset, right.stop_offset)
        ELSE cmp_score

\* The closure given to max_by.
CompareFragments(left, right) ==
    LET cmp_score == NumCmp(left.score, right.score)
    IN  IF cmp_score = "Equal"
        THEN PairCmp(right.start_offset, right.stop_offset,
                     left.start_offset, left.stop_offset)
        ELSE cmp_score

\* Iterator::max_by keeps the later element unless the earlier one is Greater.
RECURSIVE MaxByFrom(_, _)
MaxByFrom(x, rest) ==
    IF rest = <<>> THEN x
    ELSE MaxByFrom(IF CompareFragments(x, Head(rest)) = "Greater"
                   THEN x ELSE Head(rest),
                   Tail(rest))

\* best_fragment_opt: <<>> is None, <<f>> is Some(f).
BestFragmentOpt(fs) == IF fs = <<>> THEN <<>> ELSE <<MaxByFrom(Head(fs), Tail(fs))>>

Snippet_empty == [fragments |-> <<>>, highlighted |-> <<>>]

\* The highlights copied with their offsets into the source text.
Rebase_not(f) == f.highlighted

\* The highlights of the winner, made relative to its start.
Rebase(f) ==
    [i \in 1..Len(f.highlighted) |->
        HighlightSection_new(f.highlighted[i].start - f.start_offset,
                             f.highlighted[i].stop - f.start_offset)]

select_best_fragment_combination(fs, s) ==
    LET best_fragment_opt == BestFragmentOpt(fs)
    IN  IF best_fragment_opt # <<>>
        THEN LET f == best_fragment_opt[1]
             IN  [fragments |-> Slice(s, f.start_offset, f.stop_offset),
                  highlighted |-> Rebase(f)]
        ELSE Snippet_empty

\* SnippetGenerator::snippet as a function of the text, the table and the bound.
SnippetOf(s, terms, n) ==
    select_best_fragment_combination(search_fragments(s, terms, n), s)

----------------------------------------------------------------------------
(* Snippet::to_html and Snippet::to_mark *)

HIGHLIGHTEN_PREFIX == <<"<", "b", ">">>
HIGHLIGHTEN_POSTFIX == <<"<", "/", "b", ">">>

\* htmlescape's minimal entity table.
EncodeChar(c) ==
    CASE c = "\"" -> <<"&", "q", "u", "o", "t", ";">>
      [] c = "&"  -> <<"&", "a", "m", "p", ";">>
      [] c = "'"  -> <<"&", "#", "x", "2", "7", ";">>
      [] c = "<"  -> <<"&", "l", "t", ";">>
      [] c = ">"  -> <<"&", "g", "t", ";">>
      [] OTHER    -> <<c>>

RECURSIVE encode_minimal(_)
encode_minimal(s) ==
    IF s = <<>> THEN <<>> ELSE EncodeChar(Head(s)) \o encode_minimal(Tail(s))

\* The cursor left at the start of the highlight just written.
StartAfter_start(item) == item.start

\* start_from after a highlight is written.
StartAfter(item) == item.stop

\* The for loop of to_html over the highlights not yet written, then the tail.
RECURSIVE HtmlFrom(_, _, _)
HtmlFrom(s, items, start_from) ==
    IF items = <<>> THEN encode_minimal(Slice(s, start_from, Len(s)))
    ELSE LET item == Head(items)
         IN  encode_minimal(Slice(s, start_from, item.start))
                 \o HIGHLIGHTEN_PREFIX
                 \o encode_minimal(Slice(s, item.start, item.stop))
                 \o HIGHLIGHTEN_POSTFIX
                 \o HtmlFrom(s, Tail(items), StartAfter(item))

to_html(sn) == HtmlFrom(sn.fragments, sn.highlighted, 0)

\* The for loop of to_mark over the highlights not yet written, then the tail.
RECURSIVE MarkFrom(_, _, _)
MarkFrom(s, items, start_from) ==
    IF items = <<>> THEN Slice(s, start_from, Len(s))
    ELSE LET item == Head(items)
         IN  Slice(s, start_from, item.start)
                 \o HIGHLIGHTEN_PREFIX
                 \o Slice(s, item.start, item.stop)
                 \o HIGHLIGHTEN_POSTFIX
                 \o MarkFrom(s, Tail(items), StartAfter(item))

to_mark(sn) == MarkFrom(sn.fragments, sn.highlighted, 0)

----------------------------------------------------------------------------
(* SnippetGenerator *)

\* The score create() gives a term found in doc_freq documents.
TermScore(doc_freq) == ScoreScale \div (1 + doc_freq)

\* The table create() builds from the document frequency of each query term:
\* a term no document holds is left out.
CreateTermsText(doc_freq) ==
    LET kept == {t \in DOMAIN doc_freq : doc_freq[t] > 0}
    IN  [t \in kept |-> TermScore(doc_freq[t])]

NoCall ==
    /\ text = <<>>
    /\ token_stream = <<>>
    /\ fragment = FragmentCandidate_new(0)
    /\ fragments = <<>>
    /\ best = <<>>
    /\ snippet = Snippet_empty
    /\ html = <<>>
    /\ mark = <<>>
    /\ fed = <<>>

\* The generator create() returns.
Init ==
    /\ \E doc_freq \in [QueryTerms -> 0..MaxDocFreq] :
           terms_text = CreateTermsText(doc_freq)
    /\ max_num_chars = DEFAULT_MAX_NUM_CHARS
    /\ terms0 = terms_text
    /\ set_n = DEFAULT_MAX_NUM_CHARS
    /\ pc = "idle"
    /\ NoCall

\* set_max_num_chars taking 0 for "no change".
set_max_num_chars_nonzero(n) ==
    /\ pc = "idle"
    /\ max_num_chars' = IF n = 0 THEN max_num_chars ELSE n
    /\ set_n' = n
    /\ UNCHANGED <<terms_text, pc, text, token_stream, fragment, fragments,
                   best, snippet, html, mark, fed, terms0>>

set_max_num_chars(n) ==
    /\ pc = "idle"
    /\ max_num_chars' = n
    /\ set_n' = n
    /\ UNCHANGED <<terms_text, pc, text, token_stream, fragment, fragments,
                   best, snippet, html, mark, fed, terms0>>

\* snippet(text) is entered: search_fragments, up to its while loop.
SnippetCall(s) ==
    /\ pc = "idle"
    /\ pc' = "scan"
    /\ text' = s
    /\ token_stream' = TokenStream(s)
    /\ fragment' = FragmentCandidate_new(0)
    /\ fragments' = <<>>
    /\ fed' = <<>>
    /\ UNCHANGED <<terms_text, max_num_chars, best, snippet, html, mark,
                   terms0, set_n>>

\* One iteration of the while loop of search_fragments.
ScanToken ==
    /\ pc = "scan"
    /\ token_stream # <<>>
    /\ LET next == Head(token_stream)
           st == LoopBody(fragment, fragments, next, terms_text, max_num_chars)
       IN  /\ fragment' = st[1]
           /\ fragments' = st[2]
           /\ fed' = IF Exceeds(fragment, next, max_num_chars)
                     THEN <<next>> ELSE Append(fed, next)
    /\ token_stream' = Tail(token_stream)
    /\ UNCHANGED <<terms_text, max_num_chars, pc, text, best, snippet, html,
                   mark, terms0, set_n>>

\* The stream has ended: the last fragment is pushed if it scored.
ScanFinish ==
    /\ pc = "scan"
    /\ token_stream = <<>>
    /\ fragments' = PushIfScored(fragments, fragment)
    /\ pc' = "select"
    /\ UNCHANGED <<terms_text, max_num_chars, text, token_stream, fragment,
                   best, snippet, html, mark, fed, terms0, set_n>>

\* select_best_fragment_combination on the candidates of the scan.
SelectBest ==
    /\ pc = "select"
    /\ best' = BestFragmentOpt(fragments)
    /\ snippet' = select_best_fragment_combination(fragments, text)
    /\ pc' = "done"
    /\ UNCHANGED <<terms_text, max_num_chars, text, token_stream, fragment,
                   fragments, html, mark, fed, terms0, set_n>>

ToHtml ==
    /\ pc = "done"
    /\ html = <<>>
    /\ html' = <<to_html(snippet)>>
    /\ UNCHANGED <<terms_text, max_num_chars, pc, text, token_stream, fragment,
                   fragments, best, snippet, mark, fed, terms0, set_n>>

ToMark ==
    /\ pc = "done"
    /\ mark = <<>>
    /\ mark' = <<to_mark(snippet)>>
    /\ UNCHANGED <<terms_text, max_num_chars, pc, text, token_stream, fragment,
                   fragments, best, snippet, html, fed, terms0, set_n>>

\* The caller drops the Snippet; the generator is ready for the next call.
Drop ==
    /\ pc = "done"
    /\ pc' = "idle"
    /\ text' = <<>>
    /\ token_stream' = <<>>
    /\ fragment' = FragmentCandidate_new(0)
    /\ fragments' = <<>>
    /\ best' = <<>>
    /\ snippet' = Snippet_empty
    /\ html' = <<>>
    /\ mark' = <<>>
    /\ fed' = <<>>
    /\ UNCHANGED <<terms_text, max_num_chars, terms0, set_n>>

Next ==
    \/ \E n \in MaxNumCharsArgs : set_max_num_chars(n)
    \/ \E s \in Texts : SnippetCall(s)
    \/ ScanToken
    \/ ScanFinish
    \/ SelectBest
    \/ ToHtml
    \/ ToMark
    \/ Drop

Spec == Init /\ [][Next]_vars

----------------------------------------------------------------------------
(* search_fragments on any weight table *)

\* Every table over the query terms with weights 0, 1/MaxWeight, ...
AnyTables ==
    UNION {[keys -> 0..MaxWeight] : keys \in SUBSET QueryTerms}

InitAnyTable ==
    /\ terms_text \in AnyTables
    /\ max_num_chars = DEFAULT_MAX_NUM_CHARS
    /\ terms0 = terms_text
    /\ set_n = DEFAULT_MAX_NUM_CHARS
    /\ pc = "idle"
    /\ NoCall

SpecAnyTable == InitAnyTable /\ [][Next]_vars

----------------------------------------------------------------------------
(* select_best_fragment_combination on any candidate list *)

SelectSpans == {<<0, 1>>, <<2, 3>>, <<5, 20>>, <<30, 45>>}

SelectText == RepeatedText(23)

Candidate(score, span) ==
    [score |-> score, start_offset |-> span[1], stop_offset |-> span[2],
     num_chars |-> 0, highlighted |-> <<HighlightSection_new(span[1], span[2])>>]

Candidates == {Candidate(sc, sp) : sc \in 1..MaxScore, sp \in SelectSpans}

\* select_best_fragment_combination is about to run on a list of candidates
\* in any order.
InitSelect ==
    /\ terms_text = [t \in QueryTerms |-> ScoreScale]
    /\ terms0 = terms_text
    /\ max_num_chars = DEFAULT_MAX_NUM_CHARS
    /\ set_n = DEFAULT_MAX_NUM_CHARS
    /\ pc = "select"
    /\ text = SelectText
    /\ token_stream = <<>>
    /\ fragment = FragmentCandidate_new(0)
    /\ fragments \in SeqsUpTo(Candidates, MaxCands)
    /\ best = <<>>
    /\ snippet = Snippet_empty
    /\ html = <<>>
    /\ mark = <<>>
    /\ fed = <<>>

NextSelect == SelectBest

SpecSelect == InitSelect /\ [][NextSelect]_vars

----------------------------------------------------------------------------
(* Properties *)

Range(seq) == {seq[i] : i \in 1..Len(seq)}

Scanned == pc \in {"select", "done"}

\* Is the lowercased text of token tok a key of the running generator's table?
Matches(tok) ==
    [i \in 1..Len(tok.text) |-> IF tok.text[i] = "B" THEN "b" ELSE tok.text[i]]
        \in DOMAIN terms_text

SomeTokenMatches == \E tok \in Range(TokenStream(text)) : Matches(tok)

\* C1: when no token of the text has its lowercased text among the keys of
\* the weight table, the scan pushes no candidate and snippet() returns the
\* empty Snippet.
C1_NoMatchEmpty ==
    (pc # "idle" /\ ~SomeTokenMatches) =>
        /\ fragments = <<>>
        /\ pc = "done" => (best = <<>> /\ snippet = Snippet_empty)

C1_Witness ==
    /\ pc = "done"
    /\ TokenStream(text) # <<>>
    /\ DOMAIN terms_text # {}
    /\ ~SomeTokenMatches

C3_FragmentsBounded ==
    Scanned =>
        \A f \in Range(fragments) : f.stop_offset - f.start_offset <= max_num_chars

\* C8: search_fragments returns fewer than 12 fragments.
C8_FewerThanTwelve == Scanned => Len(fragments) < 12

\* <<a1, a2>> is at or before <<b1, b2>> in the order of (start, stop).
AtOrBefore(a1, a2, b1, b2) == a1 < b1 \/ (a1 = b1 /\ a2 <= b2)

C5_SnippetOfWinner ==
    (pc = "done" /\ best # <<>>) =>
        LET w == best[1]
        IN  /\ Len(snippet.fragments) = w.stop_offset - w.start_offset
            /\ \A k \in 1..Len(snippet.fragments) :
                   snippet.fragments[k] = text[w.start_offset + k]
            /\ Len(snippet.highlighted) = Len(w.highlighted)
            /\ \A i \in 1..Len(w.highlighted) :
                   /\ snippet.highlighted[i].start + w.start_offset
                          = w.highlighted[i].start
                   /\ snippet.highlighted[i].stop + w.start_offset
                          = w.highlighted[i].stop
                   /\ 0 <= snippet.highlighted[i].start
                   /\ snippet.highlighted[i].start <= snippet.highlighted[i].stop
                   /\ snippet.highlighted[i].stop <= Len(snippet.fragments)

\* A winner that does not start at offset 0 and holds a highlight.
C5_Witness ==
    /\ pc = "done"
    /\ best # <<>>
    /\ best[1].start_offset > 0
    /\ Len(snippet.highlighted) >= 1
    /\ snippet.fragments # <<>>

\* The name of an entity of htmlescape's minimal table, decoded.
DecodeEntity(name) ==
    CASE name = <<"q", "u", "o", "t">> -> <<"\"">>
      [] name = <<"a", "m", "p">>      -> <<"&">>
      [] name = <<"#", "x", "2", "7">> -> <<"'">>
      [] name = <<"l", "t">>           -> <<"<">>
      [] name = <<"g", "t">>           -> <<">">>
      [] OTHER                         -> <<"&">> \o name \o <<";">>

IsPrefix(p, s) == Len(p) <= Len(s) /\ SubSeq(s, 1, Len(p)) = p

\* HTML escaping undone: every "&name;" is replaced by its character.
RECURSIVE Unescape(_)
Unescape(s) ==
    LET amps == {k \in 1..Len(s) :
                     s[k] = "&" /\ \E m \in (k + 1)..Len(s) : s[m] = ";"}
    IN  IF amps = {} THEN s
        ELSE LET k == CHOOSE k \in amps : \A j \in amps : k <= j
                 m == CHOOSE m \in (k + 1)..Len(s) :
                          s[m] = ";" /\ \A j \in (k + 1)..(m - 1) : s[j] # ";"
             IN  SubSeq(s, 1, k - 1) \o DecodeEntity(SubSeq(s, k + 1, m - 1))
                     \o Unescape(SubSeq(s, m + 1, Len(s)))

\* s without the characters at the offsets in drop.
Without(s, drop) ==
    LET kept == {k \in 1..Len(s) : (k - 1) \notin drop}
        Nth(j) == CHOOSE k \in kept : Cardinality({q \in kept : q < k}) = j - 1
    IN  [j \in 1..Cardinality(kept) |-> s[Nth(j)]]

\* The offsets of s where p occurs, each with the Len(p) - 1 that follow.
OffsetsOf(p, s) ==
    UNION {(k - 1)..(k + Len(p) - 2) :
           k \in {k \in 1..Len(s) : IsPrefix(p, SubSeq(s, k, Len(s)))}}

\* Every "<b>" and "</b>" removed from s.
StripTags(s) ==
    Without(s, OffsetsOf(<<"<", "b", ">">>, s)
                   \cup OffsetsOf(<<"<", "/", "b", ">">>, s))

\* The number of places of s where p occurs.
Occurrences(p, s) ==
    Cardinality({k \in 1..Len(s) : IsPrefix(p, SubSeq(s, k, Len(s)))})

\* The offset in the raw markup of the marker that opens (closes) the i-th
\* highlight: 7 marker characters are inserted per earlier highlight.
OpenAt(hl, i) == hl[i].start + 7 * (i - 1)
CloseAt(hl, i) == hl[i].stop + 7 * (i - 1) + 3

\* The offsets of the raw markup the inserted markers take.
MarkerOffsets(hl) ==
    UNION {(OpenAt(hl, i)..(OpenAt(hl, i) + 2)) \cup (CloseAt(hl, i)..(CloseAt(hl, i) + 3))
           : i \in 1..Len(hl)}

\* C6: the raw markup without its inserted markers is the Snippet's text, and
\* so is the escaped markup without its markers and with the escaping undone;
\* each holds one <b>, </b> pair per highlight, in highlight order, around
\* the same segments.
C6_RenderRoundTrip ==
    LET hl == snippet.highlighted
    IN  /\ (pc = "done" /\ mark # <<>>) =>
               /\ Len(mark[1]) = Len(snippet.fragments) + 7 * Len(hl)
               /\ \A i \in 1..Len(hl) :
                      /\ Slice(mark[1], OpenAt(hl, i), OpenAt(hl, i) + 3)
                             = <<"<", "b", ">">>
                      /\ Slice(mark[1], CloseAt(hl, i), CloseAt(hl, i) + 4)
                             = <<"<", "/", "b", ">">>
               /\ Without(mark[1], MarkerOffsets(hl)) = snippet.fragments
        /\ (pc = "done" /\ html # <<>>) =>
               /\ Unescape(StripTags(html[1])) = snippet.fragments
               /\ Occurrences(<<"<", "b", ">">>, html[1]) = Len(hl)
               /\ Occurrences(<<"<", "/", "b", ">">>, html[1]) = Len(hl)
        /\ (pc = "done" /\ html # <<>> /\ mark # <<>>) =>
               Unescape(html[1]) = mark[1]

\* Both renderings of a Snippet with a highlight and escaped characters.
C6_Witness ==
    /\ pc = "done"
    /\ html # <<>>
    /\ mark # <<>>
    /\ Len(snippet.highlighted) >= 1
    /\ html[1] # mark[1]
    /\ \E k \in 1..Len(snippet.fragments) : snippet.fragments[k] = "<"

\* C7: snippet() leaves the generator as it is, set_max_num_chars changes the
\* bound alone, and the Snippet returned is the one the text, the table built
\* by create() and the last bound set (150 when none was) determine.
C7_DependsOnTextTableBound ==
    /\ terms_text = terms0
    /\ max_num_chars = set_n
    /\ pc = "done" => snippet = SnippetOf(text, terms0, set_n)

\* A call after set_max_num_chars whose result differs from the one under the
\* default bound.
C7_Witness ==
    /\ pc = "done"
    /\ set_n # DEFAULT_MAX_NUM_CHARS
    /\ snippet # SnippetOf(text, terms0, DEFAULT_MAX_NUM_CHARS)
    /\ snippet # Snippet_empty

TokenStarts == {tok.offset_from : tok \in Range(TokenStream(text))}
TokenEnds == {tok.offset_to : tok \in Range(TokenStream(text))}

\* C9, as claimed: every fragment pushed is a sub-range of the text that
\* starts where some token starts and stops where some token ends.
C9_TokenAligned ==
    \A f \in Range(fragments) :
        /\ 0 <= f.start_offset
        /\ f.start_offset <= f.stop_offset
        /\ f.stop_offset <= Len(text)
        /\ f.start_offset \in TokenStarts
        /\ f.stop_offset \in TokenEnds

\* C9, amended: every fragment pushed is a sub-range of the text that stops
\* where some token ends and starts where some token starts or, the first
\* fragment opened, at offset 0.
C9_TokenAlignedOrZero ==
    \A f \in Range(fragments) :
        /\ 0 <= f.start_offset
        /\ f.start_offset <= f.stop_offset
        /\ f.stop_offset <= Len(text)
        /\ f.start_offset \in TokenStarts \cup {0}
        /\ f.stop_offset \in TokenEnds

\* A text that begins with non-token characters, cut into two fragments.
C9_Witness ==
    /\ Scanned
    /\ Len(fragments) = 2
    /\ fragments[1].start_offset = 0
    /\ 0 \notin TokenStarts
    /\ fragments[2].start_offset \in TokenStarts

\* The spans of the tokens of toks that match, in order.
RECURSIVE SpansOf(_)
SpansOf(toks) ==
    IF toks = <<>> THEN <<>>
    ELSE (IF Matches(Head(toks))
          THEN <<[start |-> Head(toks).offset_from, stop |-> Head(toks).offset_to]>>
          ELSE <<>>) \o SpansOf(Tail(toks))

\* The sum of the weights of the tokens of toks that match.
RECURSIVE WeightOf(_)
WeightOf(toks) ==
    IF toks = <<>> THEN 0
    ELSE (IF Matches(Head(toks))
          THEN terms_text[[i \in 1..Len(Head(toks).text) |->
                              IF Head(toks).text[i] = "B" THEN "b"
                              ELSE Head(toks).text[i]]]
          ELSE 0) + WeightOf(Tail(toks))

\* C10: during the scan the current candidate's highlights are the spans of
\* the matching tokens fed to it since it was opened, in feed order, its score
\* the sum of their weights, and every highlight lies between its start and
\* its stop, each at or after the one before.
C10_BuilderInvariant ==
    pc = "scan" =>
        LET hl == fragment.highlighted
        IN  /\ hl = SpansOf(fed)
            /\ fragment.score = WeightOf(fed)
            /\ fed # <<>> => fragment.stop_offset = fed[Len(fed)].offset_to
            /\ \A i \in 1..Len(hl) :
                   /\ fragment.start_offset <= hl[i].start
                   /\ hl[i].start <= hl[i].stop
                   /\ hl[i].stop <= fragment.stop_offset
            /\ \A i \in 1..(Len(hl) - 1) : hl[i].stop <= hl[i + 1].start

\* Two terms of different weights matched in one window.
C10_Witness ==
    /\ pc = "scan"
    /\ DOMAIN terms_text = QueryTerms
    /\ terms_text[<<"a">>] # terms_text[<<"a", "b">>]
    /\ Len(fragment.highlighted) = 2
    /\ fragment.score = terms_text[<<"a">>] + terms_text[<<"a", "b">>]

====
